---- MODULE Spec2Model ----
(***************************************************************************)
(* DataFilterManager (src/creador_cojuntos.py): a principal table, a store *)
(* of named subsets with parent links, and an undo history of principal.   *)
(*                                                                         *)
(* A table is a sequence of rows.  The dataset's keys are unique and no    *)
(* operation edits a row, so a row is held as its key; Valor gives its     *)
(* value in the key column "id" and in the text column "descripcion" (a    *)
(* set of tokens).  A DataFrame OBJECT is a record with an identity (oid), *)
(* its rows and the attributes the code bolts onto it (_parent, _aplicado, *)
(* _palabras_excluidas).  Two                                              *)
(* references to the same object carry the same oid; an in-place change of *)
(* an attribute is applied to every reference with that oid.  A copy, and  *)
(* the result of filtro_palabras / drop_lines_key, is a new object with no *)
(* bolted-on attribute.                                                    *)
(***************************************************************************)
EXTENDS Integers, Sequences, FiniteSets, TLC

VARIABLES
    df_original,            \* rows of the snapshot taken at construction
    df_principal,           \* the working table (an object)
    subsets,                \* the store: name -> object
    _historial_principal,   \* stack of copies of principal (rows), newest last
    call,                   \* observer: the call just made and its outcome
    origen_de,              \* observer: name -> how and from what it was created
    eliminados,             \* observer: per history entry, the keys deleted
    antes                   \* observer: per deletion not undone, principal's
                            \* rows just before it

vars == <<df_original, df_principal, subsets, _historial_principal,
          call, origen_de, eliminados, antes>>

---------------------------------------------------------------------------
(* Bounds *)

NumRows == 3        \* rows of the dataset
MaxHist == 2        \* deepest history stack explored
MaxExcl == 1        \* most excluded words held by the store at one time

---------------------------------------------------------------------------
(* Names and inputs *)

columna_id == "id"

NombresUsuario == {"A", "B", "C"}
Reservados == {"principal", "ultimo"}
Nombres == NombresUsuario \cup Reservados

SinPadre == "None"

\* The filters a caller passes: column, keywords, mode, case, exact match.
Filtro(columna, palabras, condicional, case_sensitive, match_exacto) ==
    [columna |-> columna, palabras |-> palabras, condicional |-> condicional,
     case_sensitive |-> case_sensitive, match_exacto |-> match_exacto]

Filtros ==
    { Filtro("descripcion", {"x"}, "OR", FALSE, FALSE),
      Filtro("descripcion", {"x", "y"}, "AND", TRUE, FALSE),
      Filtro("otra", {"x"}, "OR", FALSE, FALSE) }

\* The filters a caller passes along with a name it has used before: one on
\* a column of the dataset, one on a column it does not have.
FiltrosRepetidos ==
    { Filtro("descripcion", {"x"}, "OR", FALSE, FALSE),
      Filtro("otra", {"x"}, "OR", FALSE, FALSE) }

\* How a caller uses filtrar_por_palabra itself: usar_principal and parent.
ModosDirectos == {<<TRUE, SinPadre>>, <<FALSE, SinPadre>>, <<TRUE, "A">>}

\* The names a caller passes again for a new subset, the names it gives as
\* the source of filtrar_subset, and the names it asks to read.
NombresRepetidos == {"principal", "A"}
Fuentes == {"principal", "ultimo", "A", "C"}
Consultados == {"A", "C"}

\* The words a caller excludes, and the names it excludes them for.
ListasExcluidas == {<<"x">>}
ExcluirEn == {"A", "C"}

\* Position of a store name, used to number objects canonically.
Pos(n) ==
    CASE n = "principal" -> 1
      [] n = "ultimo" -> 2
      [] n = "A" -> 3
      [] n = "B" -> 4
      [] n = "C" -> 5
      [] OTHER -> 6

Min(S) == CHOOSE x \in S : \A y \in S : x <= y

---------------------------------------------------------------------------
(* The dataset handed to the constructor: keys 1..NumRows, unique. *)

Descripcion(k) ==
    CASE k % 4 = 1 -> {"x"}
      [] k % 4 = 2 -> {"x", "y"}
      [] k % 4 = 3 -> {"y"}
      [] OTHER -> {"X"}

Dataset == [k \in 1..NumRows |-> k]

\* The value of row r in a column.
Valor(r, columna) == IF columna = "id" THEN r ELSE Descripcion(r)

---------------------------------------------------------------------------
(* DataFrame objects *)

\* A freshly built DataFrame: no bolted-on attribute.
NewDF(oid, rows) ==
    [oid |-> oid, rows |-> rows, parent |-> SinPadre,
     aplicado |-> FALSE, excluidas |-> <<>>]

Keys(rows) == {Valor(rows[i], columna_id) : i \in 1..Len(rows)}

\* Renumber object identities canonically: an object is named by the first
\* place that refers to it (0 for df_principal, then the store names).
Canon(dfp, store, oid) ==
    IF dfp.oid = oid THEN 0
    ELSE Min({Pos(n) : n \in {m \in DOMAIN store : store[m].oid = oid}})

NormPrincipal(dfp, store) == [dfp EXCEPT !.oid = 0]

NormStore(dfp, store) ==
    [n \in DOMAIN store |-> [store[n] EXCEPT !.oid = Canon(dfp, store, @)]]

\* Identities for the objects created inside one call, before renumbering.
Fresco(i) == 0 - i

---------------------------------------------------------------------------
(* External collaborators (not in src/; modelled from spec.md sections 2, 6) *)

Lower(w) == IF w = "X" THEN "x" ELSE IF w = "Y" THEN "y" ELSE w

\* One keyword against one row's text under the case / exact-match policy.
Coincide(desc, palabra, case_sensitive, match_exacto) ==
    LET toks == IF case_sensitive THEN desc ELSE {Lower(t) : t \in desc}
        p == IF case_sensitive THEN palabra ELSE Lower(palabra)
    IN IF match_exacto THEN toks = {p} ELSE p \in toks

\* RowFilter.filter: the rows of df matching the OR / AND of the keywords,
\* in df's order.
filtro_palabras(df, columna_descripcion, palabras, condicional, case_sensitive, match_exacto) ==
    LET ok(r) ==
          IF condicional = "AND"
          THEN \A p \in palabras :
                  Coincide(Valor(r, columna_descripcion), p, case_sensitive, match_exacto)
          ELSE \E p \in palabras :
                  Coincide(Valor(r, columna_descripcion), p, case_sensitive, match_exacto)
    IN SelectSeq(df, ok)

\* RowFilter fails on a column absent from the row schema.
ColumnaExiste(columna) == columna \in {"id", "descripcion"}

\* KeySetDiff.diff: df_target minus every row whose key is in df_reference.
drop_lines_key(df_target, df_reference, column_key) ==
    LET ref == {Valor(df_reference[i], column_key) : i \in 1..Len(df_reference)}
        keep(r) == Valor(r, column_key) \notin ref
    IN SelectSeq(df_target, keep)

---------------------------------------------------------------------------
(* Observers *)

\* The call just made.  caso and origen classify its input against the
\* state before the call; the other fields record what it found and did.
Call(op, nombre, caso, result) ==
    [op |-> op, nombre |-> nombre, caso |-> caso, origen |-> "-",
     result |-> result, cambio |-> FALSE, propagar |-> FALSE,
     principal_antes |-> <<>>, filas_principal |-> 0,
     padre |-> "-", padre_antes |-> <<>>, filas_padre |-> 0,
     hist_antes |-> 0, store_antes |-> 0, tras |-> "otro", repite |-> FALSE]

\* Is a deletion of nombre_subset the repeat of the call just made?
Repite(nombre_subset, propagar_a_padre) ==
    /\ call.op = "aplicar_filtro"
    /\ call.result = "ok"
    /\ call.nombre = nombre_subset
    /\ call.propagar = propagar_a_padre

\* What the call before an undo was.
Tras(c) ==
    IF c.op = "aplicar_filtro" /\ c.result = "ok"
    THEN (IF c.filas_padre > 0 THEN "aplicar_padre" ELSE "aplicar")
    ELSE IF c.op = "restaurar_anterior" /\ c.result = "ok" THEN "deshacer"
    ELSE "otro"

Observa(c) == call' = c

\* A call that raises, or has nothing to do, leaves everything as it was.
Igual == UNCHANGED <<df_original, df_principal, subsets,
                     _historial_principal, origen_de, eliminados, antes>>

CasoOrigen(nombre) == IF nombre \in DOMAIN subsets THEN "presente" ELSE "ausente"

CasoNombre(nombre) == IF nombre \in DOMAIN subsets THEN "duplicado" ELSE "nuevo"

CasoSubset(nombre) ==
    IF nombre \notin DOMAIN subsets THEN "ausente"
    ELSE IF subsets[nombre].rows = <<>> THEN "vacio" ELSE "no_vacio"

Errores == {"KeyError", "ValueError", "ColumnNotFoundError", "IndexError"}

NoCreado == [padre |-> "-", via |-> "-"]

\* The distinct objects the store and df_principal refer to.
Objetos(dfp, store) == {dfp} \cup {store[n] : n \in DOMAIN store}

RECURSIVE Excluidas(_)
Excluidas(S) ==
    IF S = {} THEN 0
    ELSE LET o == CHOOSE x \in S : TRUE
         IN Len(o.excluidas) + Excluidas(S \ {o})

---------------------------------------------------------------------------
(* __init__ *)

Init ==
    /\ df_original = Dataset
    /\ df_principal = NewDF(0, Dataset)
    /\ subsets = [n \in {"principal"} |-> NewDF(0, Dataset)]
    /\ _historial_principal = <<>>
    /\ call = [Call("__init__", "-", "-", "ok") EXCEPT !.cambio = TRUE]
    /\ origen_de = [n \in Nombres |-> NoCreado]
    /\ eliminados = <<>>
    /\ antes = <<>>

\* Install the principal object and the store, numbering objects canonically.
Instala(dfp, store) ==
    /\ df_principal' = NormPrincipal(dfp, store)
    /\ subsets' = NormStore(dfp, store)

---------------------------------------------------------------------------
(* restaurar_anterior *)

\* A variant that never sees the empty stack (the guard of line 45 left out).
HistorialVacio_nunca(hist) == FALSE

\* Line 45: nothing to undo.
HistorialVacio(hist) == hist = <<>>

\* A variant that hands back the oldest entry (pop(0) for pop()).
HistorialPop_primero(hist) == hist[1]

\* Line 50, list.pop(): the entry handed back.
HistorialPop(hist) == hist[Len(hist)]

\* A variant that reads the last entry without taking it off the stack.
HistorialResto_completo(hist) == hist

\* Line 50, list.pop(): what stays on the stack.
HistorialResto(hist) == SubSeq(hist, 1, Len(hist) - 1)

\* A variant that leaves the alias 'principal' on the table it replaced
\* (line 51 left out).
StoreTrasDeshacer_sin_alias(store, dfp) == store

\* A variant that rebuilds the store on undo, as line 67 does on reset.
StoreTrasDeshacer_reinicia(store, dfp) == [n \in {"principal"} |-> dfp]

\* Line 51: the store after the undo.
StoreTrasDeshacer(store, dfp) == [store EXCEPT !["principal"] = dfp]

restaurar_anterior ==
    LET caso == IF _historial_principal = <<>> THEN "vacio" ELSE "no_vacio"
    IN IF HistorialVacio(_historial_principal)
       THEN /\ Observa(Call("restaurar_anterior", "-", caso, "noop"))
            /\ Igual
       ELSE IF _historial_principal = <<>>
       THEN \* list.pop() on an empty list raises
            /\ Observa(Call("restaurar_anterior", "-", caso, "IndexError"))
            /\ Igual
       ELSE LET nuevo == NewDF(Fresco(1), HistorialPop(_historial_principal))
            IN /\ Instala(nuevo, StoreTrasDeshacer(subsets, nuevo))
               /\ _historial_principal' = HistorialResto(_historial_principal)
               /\ eliminados' = SubSeq(eliminados, 1, Len(eliminados) - 1)
               /\ antes' = SubSeq(antes, 1, Len(antes) - 1)
               /\ Observa([Call("restaurar_anterior", "-", caso, "ok")
                             EXCEPT !.cambio = TRUE,
                                    !.tras = Tras(call),
                                    !.repite = (call.op = "aplicar_filtro"
                                                /\ call.repite),
                                    !.padre = call.padre,
                                    !.padre_antes = call.padre_antes,
                                    !.filas_principal =
                                        Len(nuevo.rows) - Len(df_principal.rows)])
               /\ UNCHANGED <<df_original, origen_de>>

---------------------------------------------------------------------------
(* restaurar_todo *)

\* Line 67: the store after a reset.
StoreInicial(dfp) == [n \in {"principal"} |-> dfp]

\* A variant that leaves the history alone (line 68 left out).
HistorialClear_omitido(hist) == hist

\* Line 68: the history after a reset.
HistorialClear(hist) == <<>>

restaurar_todo ==
    LET nuevo == NewDF(Fresco(1), df_original)
    IN /\ Instala(nuevo, StoreInicial(nuevo))
       /\ _historial_principal' = HistorialClear(_historial_principal)
       /\ eliminados' = <<>>
       /\ antes' = <<>>
       /\ origen_de' = [n \in Nombres |-> NoCreado]
       /\ Observa([Call("restaurar_todo", "-", "-", "ok")
                     EXCEPT !.cambio = TRUE,
                            !.hist_antes = Len(_historial_principal),
                            !.store_antes = Cardinality(DOMAIN subsets)])
       /\ UNCHANGED df_original

---------------------------------------------------------------------------
(* filtrar_por_palabra *)

\* A variant that lets the reserved aliases be taken as new names.
NombreDuplicado_salvo_reservados(store, nombre) ==
    nombre \in DOMAIN store \ Reservados

\* Line 93: the duplicate-name test.
NombreDuplicado(store, nombre) == nombre \in DOMAIN store

\* Line 96: the table the filter reads.
DfOrigen(dfp, store, usar_principal) ==
    IF usar_principal THEN dfp
    ELSE IF "ultimo" \in DOMAIN store THEN store["ultimo"] ELSE dfp

\* Lines 107-109: register the new object under its name and under 'ultimo'.
Registra(store, nombre, subset) ==
    [n \in DOMAIN store \cup {nombre, "ultimo"} |->
        IF n \in {nombre, "ultimo"} THEN subset ELSE store[n]]

\* A variant that registers the name before the filter runs, so that a filter
\* that raises leaves an empty entry behind.
FiltrarPorPalabra_registra_antes(dfp, store, columna, palabras, nombre, condicional, case_sensitive, match_exacto, usar_principal, parent) ==
    IF NombreDuplicado(store, nombre)
    THEN [result |-> "ValueError", store |-> store]
    ELSE IF ~ColumnaExiste(columna)
    THEN [result |-> "ColumnNotFoundError",
          store |-> Registra(store, nombre, NewDF(Fresco(1), <<>>))]
    ELSE LET df_origen == DfOrigen(dfp, store, usar_principal)
             subset == [NewDF(Fresco(1),
                              filtro_palabras(df_origen.rows, columna,
                                   palabras, condicional, case_sensitive,
                                   match_exacto))
                          EXCEPT !.parent = parent]
         IN [result |-> "ok", store |-> Registra(store, nombre, subset)]

\* The body of filtrar_por_palabra run on a given principal and store: what
\* it raises (or "ok") and the store it leaves.
FiltrarPorPalabra(dfp, store, columna, palabras, nombre, condicional, case_sensitive, match_exacto, usar_principal, parent) ==
    IF NombreDuplicado(store, nombre)
    THEN [result |-> "ValueError", store |-> store]
    ELSE IF ~ColumnaExiste(columna)
    THEN [result |-> "ColumnNotFoundError", store |-> store]
    ELSE LET df_origen == DfOrigen(dfp, store, usar_principal)
             subset == [NewDF(Fresco(1),
                              filtro_palabras(df_origen.rows, columna,
                                   palabras, condicional, case_sensitive,
                                   match_exacto))
                          EXCEPT !.parent = parent]
         IN [result |-> "ok", store |-> Registra(store, nombre, subset)]

\* The observers after a creation attempt with outcome r.
Creacion(op, r, nombre, caso_origen, parent) ==
    /\ origen_de' = IF r.result = "ok"
                    THEN [origen_de EXCEPT
                            ![nombre] = [padre |-> parent, via |-> op]]
                    ELSE origen_de
    /\ Observa([Call(op, IF r.result = "ok" THEN nombre ELSE "-",
                     CasoNombre(nombre), r.result)
                  EXCEPT !.origen = caso_origen,
                         !.cambio = (r.result = "ok")])

filtrar_por_palabra(columna, palabras, nombre, condicional, case_sensitive, match_exacto, usar_principal, parent) ==
    LET r == FiltrarPorPalabra(df_principal, subsets, columna, palabras,
                               nombre, condicional, case_sensitive,
                               match_exacto, usar_principal, parent)
    IN /\ Instala(df_principal, r.store)
       /\ Creacion("filtrar_por_palabra", r, nombre, "-", parent)
       /\ UNCHANGED <<df_original, _historial_principal, eliminados, antes>>

---------------------------------------------------------------------------
(* filtrar_subset *)

\* A variant without the finally: the swap is undone only on success.
PrincipalAlSalir_sin_finally(df_origen_guardado, df_temporal, result) ==
    IF result = "ok" THEN df_origen_guardado ELSE df_temporal

\* Line 207 (finally): the principal in place when the call returns or raises.
PrincipalAlSalir(df_origen_guardado, df_temporal, result) == df_origen_guardado

filtrar_subset(nombre_origen, columna, palabras, nombre, condicional, case_sensitive, match_exacto) ==
    IF nombre_origen \notin DOMAIN subsets
    THEN /\ Observa([Call("filtrar_subset", "-", CasoNombre(nombre), "KeyError")
                       EXCEPT !.origen = CasoOrigen(nombre_origen)])
         /\ Igual
    ELSE LET df_origen_guardado == df_principal
             df_temporal == subsets[nombre_origen]
             r == FiltrarPorPalabra(df_temporal, subsets, columna, palabras,
                                    nombre, condicional, case_sensitive,
                                    match_exacto, TRUE, nombre_origen)
         IN /\ Instala(PrincipalAlSalir(df_origen_guardado, df_temporal,
                                        r.result),
                       r.store)
            /\ Creacion("filtrar_subset", r, nombre,
                        CasoOrigen(nombre_origen), nombre_origen)
            /\ UNCHANGED <<df_original, _historial_principal, eliminados, antes>>

---------------------------------------------------------------------------
(* agregar_excluidos *)

\* Line 161: _palabras_excluidas.extend(palabras) on the object oid, as seen
\* through the reference df.
Extiende(df, oid, palabras) ==
    IF df.oid = oid THEN [df EXCEPT !.excluidas = @ \o palabras] ELSE df

agregar_excluidos(nombre_subset, palabras) ==
    IF nombre_subset \notin DOMAIN subsets
    THEN /\ Observa(Call("agregar_excluidos", "-", CasoSubset(nombre_subset),
                         "KeyError"))
         /\ Igual
    ELSE LET oid == subsets[nombre_subset].oid
         IN /\ Excluidas(Objetos(df_principal, subsets)) + Len(palabras)
                   <= MaxExcl
            /\ Instala(Extiende(df_principal, oid, palabras),
                       [n \in DOMAIN subsets |->
                           Extiende(subsets[n], oid, palabras)])
            /\ Observa([Call("agregar_excluidos", nombre_subset,
                             CasoSubset(nombre_subset), "ok")
                          EXCEPT !.cambio = TRUE])
            /\ UNCHANGED <<df_original, _historial_principal, origen_de,
                           eliminados, antes>>

---------------------------------------------------------------------------
(* aplicar_filtro *)

\* A variant without the early return of lines 233-235.
Vacio_nunca(subset) == FALSE

\* A variant that also skips a subset already applied.
Vacio_o_aplicado(subset) == subset.rows = <<>> \/ subset.aplicado

\* Line 233: subset.empty
Vacio(subset) == subset.rows = <<>>

\* A variant that saves the original table instead of the current principal.
HistorialPush_original(hist, dfp) == Append(hist, df_original)

\* Line 238: the history after the push of a copy of principal.
HistorialPush(hist, dfp) == Append(hist, dfp.rows)

\* A variant with the two tables passed the wrong way round.
PrincipalTrasBorrar_alreves(dfp, subset) ==
    NewDF(Fresco(1), drop_lines_key(subset.rows, dfp.rows, columna_id))

\* Lines 241-245: the new principal, without the rows of the subset.
PrincipalTrasBorrar(dfp, subset) ==
    NewDF(Fresco(1), drop_lines_key(dfp.rows, subset.rows, columna_id))

\* Lines 252-254: does the deletion go on to the parent?
Propaga(store, subset, propagar_a_padre) ==
    /\ propagar_a_padre
    /\ subset.parent # SinPadre
    /\ subset.parent \in DOMAIN store

\* A variant that carries the deletion on to the parent's own parent.
Cascada_ancestros(store, parent_name, subset) ==
    LET quita(df, i) ==
            NewDF(Fresco(i), drop_lines_key(df.rows, subset.rows, columna_id))
        g == store[parent_name].parent
        s == [store EXCEPT ![parent_name] = quita(@, 2)]
    IN IF g # SinPadre /\ g \in DOMAIN store /\ g # parent_name
       THEN [s EXCEPT ![g] = quita(@, 3)]
       ELSE s

\* Lines 257-261: the store after the deletion has gone on to the parent.
Cascada(store, parent_name, subset) ==
    [store EXCEPT ![parent_name] =
        NewDF(Fresco(2),
              drop_lines_key(store[parent_name].rows, subset.rows,
                             columna_id))]

\* Line 271: _aplicado = True on the object oid, as seen through df.
Marca(df, oid) == IF df.oid = oid THEN [df EXCEPT !.aplicado = TRUE] ELSE df

aplicar_filtro(nombre_subset, propagar_a_padre) ==
    IF nombre_subset \notin DOMAIN subsets
    THEN /\ Observa(Call("aplicar_filtro", "-", CasoSubset(nombre_subset),
                         "KeyError"))
         /\ Igual
    ELSE LET subset == subsets[nombre_subset] IN
    IF Vacio(subset)
    THEN /\ Observa([Call("aplicar_filtro", nombre_subset,
                          CasoSubset(nombre_subset), "noop")
                       EXCEPT !.propagar = propagar_a_padre,
                              !.repite = Repite(nombre_subset,
                                                propagar_a_padre)])
         /\ Igual
    ELSE LET dfp1 == PrincipalTrasBorrar(df_principal, subset)
             s1 == [subsets EXCEPT !["principal"] = dfp1]
             propaga == Propaga(s1, subset, propagar_a_padre)
             parent_name == subset.parent
             s2 == IF propaga THEN Cascada(s1, parent_name, subset) ELSE s1
             filas_eliminadas ==
                   IF propaga
                   THEN Len(s1[parent_name].rows) - Len(s2[parent_name].rows)
                   ELSE 0
             oid == s2[nombre_subset].oid
         IN /\ Len(_historial_principal) < MaxHist
            /\ _historial_principal' =
                   HistorialPush(_historial_principal, df_principal)
            /\ Instala(Marca(dfp1, oid),
                       [n \in DOMAIN s2 |-> Marca(s2[n], oid)])
            /\ eliminados' = Append(eliminados, Keys(subset.rows))
            /\ antes' = Append(antes, df_principal.rows)
            /\ Observa([Call("aplicar_filtro", nombre_subset,
                             CasoSubset(nombre_subset), "ok")
                          EXCEPT !.cambio = TRUE,
                                 !.propagar = propagar_a_padre,
                                 !.repite = Repite(nombre_subset,
                                                   propagar_a_padre),
                                 !.principal_antes = df_principal.rows,
                                 !.filas_principal =
                                     Len(df_principal.rows) - Len(dfp1.rows),
                                 !.padre = IF propaga THEN parent_name ELSE "-",
                                 !.padre_antes =
                                     IF propaga THEN s1[parent_name].rows
                                     ELSE <<>>,
                                 !.filas_padre = filas_eliminadas])
            /\ UNCHANGED <<df_original, origen_de>>

---------------------------------------------------------------------------
(* Read-only operations *)

get_principal ==
    /\ Observa(Call("get_principal", "-", "-", "ok"))
    /\ Igual

listar_subsets ==
    /\ Observa(Call("listar_subsets", "-", "-", "ok"))
    /\ Igual

get_subset(nombre) ==
    /\ Observa(Call("get_subset", "-", CasoOrigen(nombre),
                    IF nombre \in DOMAIN subsets THEN "ok" ELSE "KeyError"))
    /\ Igual

ver_top_palabras(nombre_subset) ==
    /\ Observa(Call("ver_top_palabras", "-", CasoOrigen(nombre_subset),
                    IF nombre_subset \in DOMAIN subsets THEN "ok"
                    ELSE "KeyError"))
    /\ Igual

---------------------------------------------------------------------------
(* The manager driven by a caller *)

\* The caller stops at the first call that raises or changes nothing: the
\* state is then what it was before that call, so no state is lost.
Sigue == call.cambio

\* A new subset gets the first name of orden not yet in the store.
NombreLibre(orden) ==
    LET libres == {i \in 1..Len(orden) : orden[i] \notin DOMAIN subsets}
    IN IF libres = {} THEN {} ELSE {orden[Min(libres)]}

\* The names already in the store that a caller passes again.
NombresTomados == DOMAIN subsets \cap NombresRepetidos

\* Any call, with two user names.
Next ==
    \/ Sigue /\ restaurar_anterior
    \/ Sigue /\ restaurar_todo
    \/ Sigue /\ \E f \in Filtros, nombre \in NombreLibre(<<"A", "B">>),
                   m \in ModosDirectos :
            filtrar_por_palabra(f.columna, f.palabras, nombre, f.condicional,
                                f.case_sensitive, f.match_exacto, m[1], m[2])
    \/ Sigue /\ \E f \in FiltrosRepetidos, nombre \in NombresTomados :
            filtrar_por_palabra(f.columna, f.palabras, nombre, f.condicional,
                                f.case_sensitive, f.match_exacto, TRUE, SinPadre)
    \/ Sigue /\ \E nombre_origen \in Fuentes, f \in Filtros,
                   nombre \in NombreLibre(<<"A", "B">>) :
            filtrar_subset(nombre_origen, f.columna, f.palabras, nombre,
                           f.condicional, f.case_sensitive, f.match_exacto)
    \/ Sigue /\ \E nombre_origen \in Fuentes, f \in FiltrosRepetidos,
                   nombre \in NombresTomados :
            filtrar_subset(nombre_origen, f.columna, f.palabras, nombre,
                           f.condicional, f.case_sensitive, f.match_exacto)
    \/ Sigue /\ \E nombre_subset \in ExcluirEn, palabras \in ListasExcluidas :
            agregar_excluidos(nombre_subset, palabras)
    \/ Sigue /\ \E nombre_subset \in Nombres, propagar_a_padre \in BOOLEAN :
            aplicar_filtro(nombre_subset, propagar_a_padre)
    \/ Sigue /\ get_principal
    \/ Sigue /\ listar_subsets
    \/ Sigue /\ \E nombre \in Consultados : get_subset(nombre)
    \/ Sigue /\ \E nombre_subset \in Consultados :
            ver_top_palabras(nombre_subset)

Spec == Init /\ [][Next]_vars

\* Chains of subsets: three user names, each subset made from principal or
\* from a user subset, then deleted, undone or reset.
NextCadena ==
    \/ Sigue /\ restaurar_anterior
    \/ Sigue /\ restaurar_todo
    \/ Sigue /\ \E f \in Filtros, nombre \in NombreLibre(<<"A", "B", "C">>) :
            filtrar_por_palabra(f.columna, f.palabras, nombre, f.condicional,
                                f.case_sensitive, f.match_exacto, TRUE, SinPadre)
    \/ Sigue /\ \E nombre_origen \in NombresUsuario, f \in Filtros,
                   nombre \in NombreLibre(<<"A", "B", "C">>) :
            filtrar_subset(nombre_origen, f.columna, f.palabras, nombre,
                           f.condicional, f.case_sensitive, f.match_exacto)
    \/ Sigue /\ \E nombre_subset \in NombresUsuario,
                   propagar_a_padre \in BOOLEAN :
            aplicar_filtro(nombre_subset, propagar_a_padre)

SpecCadena == Init /\ [][NextCadena]_vars

\* Callers that leave the parent of filtrar_por_palabra at its default: two
\* user names, subsets made from principal, from 'ultimo' or from a named
\* source, given excluded words ('principal' too), then deleted, undone or
\* reset.
NextSinPadre ==
    \/ Sigue /\ restaurar_anterior
    \/ Sigue /\ restaurar_todo
    \/ Sigue /\ \E f \in Filtros, nombre \in NombreLibre(<<"A", "B">>),
                   usar_principal \in BOOLEAN :
            filtrar_por_palabra(f.columna, f.palabras, nombre, f.condicional,
                                f.case_sensitive, f.match_exacto,
                                usar_principal, SinPadre)
    \/ Sigue /\ \E nombre_origen \in Fuentes, f \in Filtros,
                   nombre \in NombreLibre(<<"A", "B">>) :
            filtrar_subset(nombre_origen, f.columna, f.palabras, nombre,
                           f.condicional, f.case_sensitive, f.match_exacto)
    \/ Sigue /\ \E nombre_subset \in ExcluirEn \cup {"principal"},
                   palabras \in ListasExcluidas :
            agregar_excluidos(nombre_subset, palabras)
    \/ Sigue /\ \E nombre_subset \in Nombres, propagar_a_padre \in BOOLEAN :
            aplicar_filtro(nombre_subset, propagar_a_padre)

SpecSinPadre == Init /\ [][NextSinPadre]_vars

---------------------------------------------------------------------------
(* Properties *)

Estado == <<df_principal, subsets, _historial_principal>>

Usuarios(store) == DOMAIN store \ {"principal"}

\* C1: a deletion of a subset that has at least one row, followed at once
\* by an undo, leaves principal with the rows it had before the deletion,
\* in the same order.
C1_IdaYVuelta ==
    [][(/\ call.op = "aplicar_filtro"
        /\ call.caso = "no_vacio"
        /\ call'.op = "restaurar_anterior")
       => df_principal'.rows = call.principal_antes]_vars

\* An undo right after a deletion that had removed rows, under an older
\* history entry.
C1_Testigo ==
    /\ call.op = "restaurar_anterior"
    /\ call.tras \in {"aplicar", "aplicar_padre"}
    /\ call.filas_principal > 0
    /\ _historial_principal # <<>>

\* C2: for B made from A by filtrar_subset, with A's rows in principal and B
\* not empty, deleting B takes B's keys out of principal and, when it
\* propagates, out of A; without propagation A keeps its rows.
C2_Cascada ==
    [][\A a \in Nombres :
        LET b == call'.nombre
        IN (/\ call'.op = "aplicar_filtro"
            /\ call'.caso = "no_vacio"
            /\ origen_de[b] = [padre |-> a, via |-> "filtrar_subset"]
            /\ a \in DOMAIN subsets
            /\ Keys(subsets[a].rows) \subseteq Keys(df_principal.rows))
           => /\ df_principal'.rows =
                    drop_lines_key(df_principal.rows, subsets[b].rows,
                                   columna_id)
              /\ subsets'[a].rows =
                    IF call'.propagar
                    THEN drop_lines_key(subsets[a].rows, subsets[b].rows,
                                        columna_id)
                    ELSE subsets[a].rows]_vars

\* C3: an undo after a deletion that took rows out of a parent subset puts
\* principal back and leaves every subset, the reduced parent included, as
\* the deletion left it.
C3_Asimetria ==
    [][(/\ call.op = "aplicar_filtro"
        /\ call.filas_padre > 0
        /\ call'.op = "restaurar_anterior")
       => /\ df_principal'.rows = call.principal_antes
          /\ Usuarios(subsets') = Usuarios(subsets)
          /\ \A n \in Usuarios(subsets) : subsets'[n].rows = subsets[n].rows
          /\ subsets'[call.padre].rows # call.padre_antes]_vars

\* An undo has brought rows back to principal while the parent named by the
\* undone deletion still lacks the rows it lost.
C3_Testigo ==
    /\ call.op = "restaurar_anterior"
    /\ call.tras = "aplicar_padre"
    /\ call.filas_principal > 0
    /\ Len(subsets[call.padre].rows) < Len(call.padre_antes)

\* C4: after restaurar_todo principal is the original snapshot, the store has
\* the entry 'principal' alone, over the same rows, and the history is empty.
C4_Reinicio ==
    call.op = "restaurar_todo"
    => /\ df_principal.rows = df_original
       /\ DOMAIN subsets = {"principal"}
       /\ subsets["principal"].rows = df_original
       /\ subsets["principal"].parent = SinPadre
       /\ _historial_principal = <<>>

\* A reset of a manager that held two history entries and user subsets.
C4_Testigo ==
    /\ call.op = "restaurar_todo"
    /\ call.hist_antes >= 2
    /\ call.store_antes >= 3

Creaciones == {"filtrar_por_palabra", "filtrar_subset"}

\* C5 (as claimed): a creation under a name already in the store fails with
\* the duplicate-name error and leaves the store as it was.
C5_Duplicado ==
    [][(call'.op \in Creaciones /\ call'.caso = "duplicado")
       => (call'.result = "ValueError" /\ subsets' = subsets)]_vars

\* C5 (amended): a creation under a name already in the store fails and
\* leaves the store as it was; the error is the duplicate-name error, except
\* that filtrar_subset with a source absent from the store fails with the
\* not-found error.
C5_DuplicadoEnmendado ==
    [][(call'.op \in Creaciones /\ call'.caso = "duplicado")
       => /\ call'.result =
                IF call'.origen = "ausente" THEN "KeyError" ELSE "ValueError"
          /\ subsets' = subsets]_vars

\* A creation from an existing source refused for its name, in a store that
\* holds user subsets and the alias 'ultimo'.
C5_Testigo ==
    /\ call.op = "filtrar_subset"
    /\ call.caso = "duplicado"
    /\ call.origen = "presente"
    /\ call.result = "ValueError"
    /\ {"A", "B", "ultimo"} \subseteq DOMAIN subsets

\* C6: an undo on an empty history raises nothing and changes nothing.
C6_DeshacerVacio ==
    [][(call'.op = "restaurar_anterior" /\ call'.caso = "vacio")
       => (call'.result = "noop" /\ UNCHANGED Estado)]_vars

\* An undo with nothing to undo, in a store that holds user subsets.
C6_Testigo ==
    /\ call.op = "restaurar_anterior"
    /\ call.caso = "vacio"
    /\ call.result = "noop"
    /\ {"A", "B"} \subseteq DOMAIN subsets

\* C7: a deletion of a subset that is in the store and has no rows changes
\* neither the history, nor principal, nor any subset.
C7_BorrarVacio ==
    [][(call'.op = "aplicar_filtro" /\ call'.caso = "vacio")
       => UNCHANGED Estado]_vars

\* A deletion of an empty subset, with history to lose and rows to delete.
C7_Testigo ==
    /\ call.op = "aplicar_filtro"
    /\ call.caso = "vacio"
    /\ _historial_principal # <<>>
    /\ df_principal.rows # <<>>

\* C8: filtrar_subset, returning or raising, leaves principal and the
\* history as they were.
C8_PrincipalIntacto ==
    [][call'.op = "filtrar_subset"
       => /\ df_principal' = df_principal
          /\ _historial_principal' = _historial_principal]_vars

\* filtrar_subset raised inside the filter, after the swap, with a source
\* whose rows are not principal's.
C8_Testigo ==
    /\ call.op = "filtrar_subset"
    /\ call.result = "ColumnNotFoundError"
    /\ \E n \in Usuarios(subsets) : subsets[n].rows # df_principal.rows

\* Rows of tabla whose key is not in claves.
Sin(tabla, claves) ==
    LET queda(r) == Valor(r, columna_id) \notin claves IN SelectSeq(tabla, queda)

Aplicados == {n \in DOMAIN subsets : subsets[n].aplicado}

\* C9 (as claimed): principal is original minus every row whose key belongs
\* to a subset whose applied flag is true.
C9_I3 ==
    df_principal.rows =
        Sin(df_original, UNION {Keys(subsets[n].rows) : n \in Aplicados})

\* C9 (amended): principal is original minus every row whose key was in a
\* subset when a deletion of that subset ran and has not been undone since.
C9_I3Enmendado ==
    df_principal.rows =
        Sin(df_original,
            UNION {eliminados[i] : i \in 1..Len(eliminados)})

\* A deletion stands, the deletion of another subset was undone before it,
\* and rows are left.
C9_Testigo ==
    /\ Len(eliminados) = 1
    /\ call.op = "aplicar_filtro"
    /\ call.filas_principal > 0
    /\ \E n \in Aplicados \ {"principal"} :
          Keys(subsets[n].rows) \cap Keys(df_principal.rows) # {}
    /\ df_principal.rows # <<>>

\* C10: a call that raises leaves principal, the history and the store as
\* they were.
C10_SinMutacionParcial ==
    [][call'.result \in Errores => UNCHANGED Estado]_vars

\* A creation raised on its column, in a manager with history and subsets.
C10_Testigo ==
    /\ call.op \in Creaciones
    /\ call.result = "ColumnNotFoundError"
    /\ _historial_principal # <<>>
    /\ "ultimo" \in DOMAIN subsets

\* C11 (I2): a parent link that appears on a store entry, or changes, names
\* a subset that was in the store when the call that set it began; links are
\* set at creation only, so every link in the store names a subset that was
\* there when its subset was created.
C11_I2 ==
    [][\A n \in DOMAIN subsets' :
        (/\ subsets'[n].parent # SinPadre
         /\ \/ n \notin DOMAIN subsets
            \/ subsets[n].parent # subsets'[n].parent)
        => subsets'[n].parent \in DOMAIN subsets]_vars

\* C12: the store entry 'principal' holds exactly the rows of the working
\* principal table.
C12_AliasPrincipal ==
    /\ "principal" \in DOMAIN subsets
    /\ subsets["principal"].rows = df_principal.rows

\* A deletion went on to the parent 'principal': the alias is now another
\* object than the working table, and rows were removed.
C12_Testigo ==
    /\ call.op = "aplicar_filtro"
    /\ call.padre = "principal"
    /\ call.filas_principal > 0
    /\ subsets["principal"].oid # df_principal.oid
    /\ _historial_principal # <<>>

\* The most recently created subset: new subsets take the names A, B, C in
\* that order and leave the store only at a reset.
Reciente(store) ==
    IF "C" \in DOMAIN store THEN "C"
    ELSE IF "B" \in DOMAIN store THEN "B" ELSE "A"

\* C13: once a subset has been created, the store entry 'ultimo' holds the
\* rows held by the entry of the most recently created subset.
C13_Ultimo ==
    (DOMAIN subsets \cap NombresUsuario # {})
    => /\ "ultimo" \in DOMAIN subsets
       /\ subsets["ultimo"].rows = subsets[Reciente(subsets)].rows

\* C14: every registered subset has the parent it was created with.
C14_PadreFijo ==
    \A n \in DOMAIN subsets \cap NombresUsuario :
        subsets[n].parent = origen_de[n].padre

\* b was made from a, and a from g, both by filtrar_subset, and all three
\* are in the store.
Cadena(g, a, b) ==
    /\ {g, a, b} \subseteq DOMAIN subsets \cap NombresUsuario
    /\ origen_de[b] = [padre |-> a, via |-> "filtrar_subset"]
    /\ origen_de[a] = [padre |-> g, via |-> "filtrar_subset"]

\* C15: in a chain g, a, b a propagating deletion of b changes the rows of
\* principal and of a alone: g, b and every other entry keep their rows, and
\* b stays in the store.
C15_UnNivel ==
    [][\A g \in NombresUsuario, a \in NombresUsuario :
        (/\ call'.op = "aplicar_filtro"
         /\ call'.result = "ok"
         /\ call'.propagar
         /\ Cadena(g, a, call'.nombre))
        => /\ DOMAIN subsets' = DOMAIN subsets
           /\ \A n \in DOMAIN subsets \ {"principal", a} :
                 subsets'[n].rows = subsets[n].rows]_vars

\* A deletion of b took rows out of a, and g holds rows of b.
C15_Testigo ==
    /\ call.op = "aplicar_filtro"
    /\ call.filas_padre > 0
    /\ \E g \in NombresUsuario :
          /\ Cadena(g, call.padre, call.nombre)
          /\ Keys(subsets[g].rows) \cap Keys(subsets[call.nombre].rows) # {}

\* What a repeated deletion does, by the claim: no row of principal or of
\* any subset changes, and the history gains one more snapshot, equal to
\* principal as the first call left it.
SoloHistorial ==
    /\ df_principal'.rows = df_principal.rows
    /\ DOMAIN subsets' = DOMAIN subsets
    /\ \A n \in DOMAIN subsets : subsets'[n].rows = subsets[n].rows
    /\ _historial_principal' =
           Append(_historial_principal, df_principal.rows)

\* C16 (as claimed): a deletion of a subset that had rows, called again at
\* once with the same arguments, changes no rows and pushes one more
\* snapshot.
C16_Repetir ==
    [][call'.op = "aplicar_filtro" /\ call'.repite => SoloHistorial]_vars

\* C16 (amended): the same, for a subset that has rows before each of the
\* two calls; an undo right after the second call then leaves principal
\* without the subset's rows.
C16_RepetirEnmendado ==
    /\ [][(call'.op = "aplicar_filtro" /\ call'.repite
            /\ call'.caso = "no_vacio") => SoloHistorial]_vars
    /\ [][(call.op = "aplicar_filtro" /\ call.repite /\ call.result = "ok"
            /\ call'.op = "restaurar_anterior")
           => Keys(df_principal'.rows)
                 \cap Keys(subsets'[call.nombre].rows) = {}]_vars

\* An undo right after a repeated deletion that had propagated to a parent;
\* one snapshot is left on the history.
C16_Testigo ==
    /\ call.op = "restaurar_anterior"
    /\ call.tras \in {"aplicar", "aplicar_padre"}
    /\ call.repite
    /\ call.padre # "-"
    /\ Len(_historial_principal) = 1

\* C17: an undo that finds deletions to undo sets principal to the rows it
\* had just before the latest deletion not yet undone, and takes one entry
\* off the history; once every deletion is undone an undo is a no-op.
C17_OrdenDePila ==
    [][call'.op = "restaurar_anterior"
       => IF antes # <<>>
          THEN /\ call'.result = "ok"
               /\ df_principal'.rows = antes[Len(antes)]
               /\ Len(_historial_principal') = Len(_historial_principal) - 1
          ELSE /\ call'.result = "noop"
               /\ df_principal' = df_principal]_vars

\* The second of two undos in a row, after two deletions that each removed
\* rows: principal is back to the original table and nothing is left to undo.
C17_Testigo ==
    /\ call.op = "restaurar_anterior"
    /\ call.result = "ok"
    /\ call.tras = "deshacer"
    /\ call.filas_principal > 0
    /\ _historial_principal = <<>>
    /\ df_principal.rows = df_original
    /\ DOMAIN subsets \cap NombresUsuario # {}

\* C18: the history gains one entry, the rows principal had before the call,
\* on a deletion of a subset that has rows; it loses its last entry on an
\* undo that finds one; it is emptied by a reset; every other call, failing
\* calls and deletions of empty subsets included, leaves it as it was.
C18_Historial ==
    [][_historial_principal' =
         IF call'.op = "aplicar_filtro" /\ call'.caso = "no_vacio"
         THEN Append(_historial_principal, df_principal.rows)
         ELSE IF call'.op = "restaurar_anterior"
                 /\ _historial_principal # <<>>
         THEN SubSeq(_historial_principal, 1, Len(_historial_principal) - 1)
         ELSE IF call'.op = "restaurar_todo"
         THEN <<>>
         ELSE _historial_principal]_vars

\* A subset was created from a named source while one snapshot stands and
\* a subset holds excluded words.
C18_Testigo ==
    /\ call.op = "filtrar_subset"
    /\ call.result = "ok"
    /\ Len(_historial_principal) = 1
    /\ _historial_principal[1] # df_principal.rows
    /\ \E n \in DOMAIN subsets : subsets[n].excluidas # <<>>

\* C19: between resets the excluded words of a registered name change only
\* by a successful agregar_excluidos on that name, which appends its words;
\* a name starts with none.
C19_Excluidas ==
    [][call'.op # "restaurar_todo"
       => /\ \A n \in DOMAIN subsets \ {"ultimo"} :
               /\ n \in DOMAIN subsets'
               /\ IF call'.op = "agregar_excluidos" /\ call'.nombre = n
                  THEN \E palabras \in ListasExcluidas :
                          subsets'[n].excluidas =
                              subsets[n].excluidas \o palabras
                  ELSE subsets'[n].excluidas = subsets[n].excluidas
          /\ \A n \in DOMAIN subsets' \ (DOMAIN subsets \cup {"ultimo"}) :
               subsets'[n].excluidas = <<>>]_vars

\* Rows of tabla whose key is in claves.
Con(tabla, claves) ==
    LET esta(r) == Valor(r, columna_id) \in claves IN SelectSeq(tabla, esta)

\* rows is a sub-collection of the original table: its rows are rows of the
\* original, none twice, in the original's order.
SubColeccion(rows) == rows = Con(df_original, Keys(rows))

\* C20: the original table is as built; principal, every snapshot and every
\* subset are sub-collections of it; each snapshot holds the rows of the
\* snapshot pushed after it and the last one holds the rows of principal.
C20_SubColecciones ==
    LET h == _historial_principal
    IN /\ df_original = Dataset
       /\ SubColeccion(df_principal.rows)
       /\ \A n \in DOMAIN subsets : SubColeccion(subsets[n].rows)
       /\ \A i \in 1..Len(h) : SubColeccion(h[i])
       /\ \A i \in 1..(Len(h) - 1) : Keys(h[i + 1]) \subseteq Keys(h[i])
       /\ h # <<>> => Keys(df_principal.rows) \subseteq Keys(h[Len(h)])

\* An undo left a snapshot under a principal smaller than it, with a
\* subset holding rows principal has lost.
C20_Testigo ==
    /\ call.op = "restaurar_anterior"
    /\ call.result = "ok"
    /\ _historial_principal # <<>>
    /\ _historial_principal[1] # df_principal.rows
    /\ df_principal.rows # <<>>
    /\ \E n \in DOMAIN subsets :
          ~(Keys(subsets[n].rows) \subseteq Keys(df_principal.rows))

====
